---- MODULE Spec2Model ----
(***************************************************************************)
(* Model of cdp_agentkit_core/actions: the URI normalisation and metadata  *)
(* assembly of utils/metadata_utils.py and the three agent actions         *)
(* (deploy_zora_collection.py, create_token_on_zora_collection.py,         *)
(* social/twitter/get_tweets.py).                                          *)
(*                                                                         *)
(* A Python str is a sequence of one-character strings, so that prefix     *)
(* tests, replacement and URL parsing are computed character by            *)
(* character.  Python's None is the value None below.                      *)
(***************************************************************************)
EXTENDS Integers, Sequences, FiniteSets, TLC

VARIABLES pc, call, uri, thumbnail, head, env, ret, raised, probes

vars == <<pc, call, uri, thumbnail, head, env, ret, raised, probes>>

\* ------------------------------------------------------------------------
\* Bounds
\* ------------------------------------------------------------------------
\* Longest input string, counted in fragments of Fragments.
MaxFrags == 3
\* Longest media_url handed to make_token_metadata, in fragments.
MaxMediaFrags == 2

\* ------------------------------------------------------------------------
\* Python values
\* ------------------------------------------------------------------------
\* None: distinct from every str (a str holds one-character strings only).
None == << "None" >>

\* bool(x) of a str-or-None value: None and "" are falsy.
Truthy(x) == x /= None /\ x /= << >>

\* isinstance(x, str)
IsStr(x) == x /= None

\* str.startswith
StartsWith(s, p) == Len(s) >= Len(p) /\ SubSeq(s, 1, Len(p)) = p

\* str.find, 1-based; 0 when p does not occur in s.
Find(s, p) ==
    LET hits == { i \in 1..(Len(s) - Len(p) + 1) : SubSeq(s, i, i + Len(p) - 1) = p }
    IN  IF hits = {} THEN 0 ELSE CHOOSE i \in hits : \A j \in hits : i <= j

\* str.replace(old, new): every non-overlapping occurrence, leftmost first.
RECURSIVE Replace(_, _, _)
Replace(s, old, new) ==
    IF Len(s) < Len(old) THEN s
    ELSE IF StartsWith(s, old)
         THEN new \o Replace(SubSeq(s, Len(old) + 1, Len(s)), old, new)
         ELSE << Head(s) >> \o Replace(Tail(s), old, new)

\* str.replace(old, new, 1): the first occurrence only.
ReplaceFirst(s, old, new) ==
    LET i == Find(s, old)
    IN  IF i = 0 THEN s
        ELSE SubSeq(s, 1, i - 1) \o new \o SubSeq(s, i + Len(old), Len(s))

\* str.strip(chars) for a one-character chars.
Strip(s, c) ==
    LET keep == { i \in 1..Len(s) : s[i] /= c }
    IN  IF keep = {} THEN << >>
        ELSE LET lo == CHOOSE i \in keep : \A j \in keep : i <= j
                 hi == CHOOSE i \in keep : \A j \in keep : i >= j
             IN  SubSeq(s, lo, hi)

\* re.sub(r'^' + p, '', s): remove p when s starts with it.
RemovePrefix(s, p) == IF StartsWith(s, p) THEN SubSeq(s, Len(p) + 1, Len(s)) ELSE s

\* ------------------------------------------------------------------------
\* String literals of the source
\* ------------------------------------------------------------------------
QUOTE == << "\"" >>
HTTP_PREFIX == << "h", "t", "t", "p", ":", "/", "/" >>
IPFS_PREFIX == << "i", "p", "f", "s", ":", "/", "/" >>
IPFS_PATH == << "/", "i", "p", "f", "s", "/" >>
DOUBLE_SLASH == << "/", "/" >>
IPFS_GATEWAY == << "h", "t", "t", "p", "s", ":", "/", "/", "i", "p", "f", "s", ".", "i", "o" >>
BAFY == << "b", "a", "f", "y" >>
QM == << "Q", "m" >>
HTTPS_SCHEME == << "h", "t", "t", "p", "s", ":" >>
DATA_SCHEME == << "d", "a", "t", "a", ":" >>
BLOB_SCHEME == << "b", "l", "o", "b", ":" >>
IMAGE_SLASH == << "i", "m", "a", "g", "e", "/" >>
VIDEO_SLASH == << "v", "i", "d", "e", "o", "/" >>
AUDIO_SLASH == << "a", "u", "d", "i", "o", "/" >>
OCTET_STREAM == << "a", "p", "p", "l", "i", "c", "a", "t", "i", "o", "n", "/",
                   "o", "c", "t", "e", "t", "-", "s", "t", "r", "e", "a", "m" >>

\* DEFAULT_THUMBNAIL_CID_HASHES: the same CID under each of its four keys.
BAFKREIASDASD == << "b", "a", "f", "k", "r", "e", "i", "a", "s", "d", "a", "s", "d" >>
DEFAULT_THUMBNAIL_CID_HASHES ==
    [k \in {"image", "video", "audio", "default"} |-> BAFKREIASDASD]

\* ------------------------------------------------------------------------
\* urllib.parse.urlparse, as far as the program reads it (path and query).
\* The inputs hold no ';', '[' or ']', so params is always empty and
\* urlparse never raises.
\* ------------------------------------------------------------------------
Letters == { "a", "b", "c", "d", "e", "f", "g", "h", "i", "j", "k", "l", "m",
             "n", "o", "p", "q", "r", "s", "t", "u", "v", "w", "x", "y", "z",
             "A", "B", "C", "D", "E", "F", "G", "H", "I", "J", "K", "L", "M",
             "N", "O", "P", "Q", "R", "S", "T", "U", "V", "W", "X", "Y", "Z" }
SchemeChars == Letters \cup { "0", "1", "2", "3", "4", "5", "6", "7", "8", "9",
                              "+", "-", "." }

\* s up to the first c, and s after it (empty when c does not occur).
BeforeAt(s, i) == IF i > 0 THEN SubSeq(s, 1, i - 1) ELSE s
AfterAt(s, i) == IF i > 0 THEN SubSeq(s, i + 1, Len(s)) ELSE << >>
Before(s, c) == BeforeAt(s, Find(s, << c >>))
After(s, c) == AfterAt(s, Find(s, << c >>))

\* urlsplit: the scheme is url[:i] for the first ':' at i > 0 when url[0] is
\* a letter and url[:i] holds scheme characters only; the rest follows it.
AfterSchemeAt(url, colon) ==
    IF /\ colon > 1
       /\ url[1] \in Letters
       /\ \A k \in 1..(colon - 1) : url[k] \in SchemeChars
    THEN SubSeq(url, colon + 1, Len(url))
    ELSE url
AfterScheme(url) == AfterSchemeAt(url, Find(url, << ":" >>))

\* _splitnetloc(url, 2): the netloc runs to the first of '/', '?', '#'.
AfterNetlocAt(rest, delims) ==
    IF delims = {} THEN << >>
    ELSE SubSeq(rest, CHOOSE k \in delims : \A j \in delims : k <= j, Len(rest))
AfterNetloc(rest) ==
    IF StartsWith(rest, DOUBLE_SLASH)
    THEN AfterNetlocAt(rest, { k \in 3..Len(rest) : rest[k] \in { "/", "?", "#" } })
    ELSE rest

\* The fragment is split off before the query.
PathAndQuery(rest) == [path |-> Before(rest, "?"), query |-> After(rest, "?")]
urlparse(url) == PathAndQuery(Before(AfterNetloc(AfterScheme(url)), "#"))

\* ------------------------------------------------------------------------
\* metadata_utils.py: URI classification and normalisation
\* ------------------------------------------------------------------------
is_normalized_ipfs_url(url) ==
    Truthy(url) /\ IsStr(url) /\ StartsWith(url, IPFS_PREFIX)

is_gateway_ipfs_url(url) ==
    IF Truthy(url) /\ IsStr(url)
    THEN LET parsed == urlparse(Strip(url, "\""))
         IN  ~is_normalized_ipfs_url(url) /\ StartsWith(parsed.path, IPFS_PATH)
    ELSE FALSE

is_ipfs_url(url) ==
    Truthy(url) /\ (is_normalized_ipfs_url(url) \/ is_gateway_ipfs_url(url))

\* The regular expression ^(bafy|Qm) of the except branch of is_cid.
MatchesCidPrefix(s) == StartsWith(s, BAFY) \/ StartsWith(s, QM)

\* The try block holds only `return True`, which cannot raise: the except
\* branch with the regular expression is never taken.
is_cid(s) ==
    IF ~Truthy(s) THEN FALSE ELSE TRUE

is_normalizeable_ipfs_url(url) ==
    Truthy(url) /\ (is_ipfs_url(url) \/ is_cid(url))

\* Lines 291-301: the gateway URL, parsed, as an ipfs:// URL.
GatewayToIpfs(parsed) ==
    IPFS_PREFIX \o (RemovePrefix(parsed.path, IPFS_PATH) \o parsed.query)

\* NormalizeUnquoted without the early return for an already normalized URL.
NormalizeUnquoted_NoEarlyReturn(url) ==
    IF is_cid(url) THEN IPFS_PREFIX \o url
    ELSE IF ~is_ipfs_url(url) THEN None
    ELSE IF is_gateway_ipfs_url(url)
         THEN GatewayToIpfs(urlparse(ReplaceFirst(url, DOUBLE_SLASH, HTTP_PREFIX)))
         ELSE None

\* Lines 279-303, on the url without its double quotes.
NormalizeUnquoted(url) ==
    IF is_normalized_ipfs_url(url) THEN url
    ELSE IF is_cid(url) THEN IPFS_PREFIX \o url
    ELSE IF ~is_ipfs_url(url) THEN None
    ELSE IF is_gateway_ipfs_url(url)
         THEN GatewayToIpfs(urlparse(ReplaceFirst(url, DOUBLE_SLASH, HTTP_PREFIX)))
         ELSE None

normalize_ipfs_url(url) ==
    IF ~Truthy(url) \/ ~IsStr(url) THEN None
    ELSE NormalizeUnquoted(Replace(url, QUOTE, << >>))

\* Lines 60-63: the normalized URL as a gateway URL.
ToGateway(normalized_ipfs_url) ==
    IF Truthy(normalized_ipfs_url)
    THEN Replace(normalized_ipfs_url, IPFS_PREFIX, IPFS_GATEWAY \o IPFS_PATH)
    ELSE None

ipfs_gateway_url(url) ==
    IF ~Truthy(url) \/ ~IsStr(url) THEN None
    ELSE ToGateway(normalize_ipfs_url(url))

\* re.match(r"^(https|data|blob):", uri)
MatchesFetchableScheme(u) ==
    \/ StartsWith(u, HTTPS_SCHEME)
    \/ StartsWith(u, DATA_SCHEME)
    \/ StartsWith(u, BLOB_SCHEME)

\* get_fetchable_url without the test for the insecure scheme.
get_fetchable_url_AllowsHttp(u) ==
    IF ~Truthy(u) \/ ~IsStr(u) THEN None
    ELSE IF is_normalizeable_ipfs_url(u) THEN ipfs_gateway_url(u)
    ELSE IF MatchesFetchableScheme(u) THEN u
    ELSE None

get_fetchable_url(u) ==
    IF ~Truthy(u) \/ ~IsStr(u) THEN None
    ELSE IF StartsWith(u, HTTP_PREFIX) THEN None
    ELSE IF is_normalizeable_ipfs_url(u) THEN ipfs_gateway_url(u)
    ELSE IF MatchesFetchableScheme(u) THEN u
    ELSE None

\* ------------------------------------------------------------------------
\* Outcome of a call that may raise: the exception (class and the value its
\* message carries) or the returned value.
\* ------------------------------------------------------------------------
NoExc == [cls |-> "none", about |-> None]
Exc(c, a) == [cls |-> c, about |-> a]
Ok(v) == [exc |-> NoExc, val |-> << v >>]
Raise(c, a) == [exc |-> Exc(c, a), val |-> << >>]

\* `except handler:` catches exception class c.  Every class raised in the
\* program derives from Exception; TweepyException catches only its own.
Catches(handler, c) == handler = "Exception" \/ handler = c

\* ------------------------------------------------------------------------
\* metadata_utils.py: media type and metadata assembly
\* ------------------------------------------------------------------------
\* requests.head(url): the response seen by get_mime_type.  failed: the
\* request raised a RequestException; content_type: the Content-Type header,
\* None when the response has none.
get_mime_type(response) ==
    IF response.failed THEN None ELSE response.content_type

\* None has no startswith: the attribute lookup raises AttributeError.
is_image(mime_type) ==
    IF ~IsStr(mime_type) THEN Raise("AttributeError", None)
    ELSE Ok(StartsWith(mime_type, IMAGE_SLASH))

mime_type_to_media(mime_type) ==
    IF ~IsStr(mime_type) THEN Raise("AttributeError", None)
    ELSE IF StartsWith(mime_type, IMAGE_SLASH) THEN Ok("image")
    ELSE IF StartsWith(mime_type, VIDEO_SLASH) THEN Ok("video")
    ELSE IF StartsWith(mime_type, AUDIO_SLASH) THEN Ok("audio")
    ELSE Ok("unknown")

\* DEFAULT_THUMBNAIL_CID_HASHES.get(media_type) or DEFAULT_THUMBNAIL_CID_HASHES['default']
DefaultThumbnailCid(media_type) ==
    IF media_type \in DOMAIN DEFAULT_THUMBNAIL_CID_HASHES
       /\ Truthy(DEFAULT_THUMBNAIL_CID_HASHES[media_type])
    THEN DEFAULT_THUMBNAIL_CID_HASHES[media_type]
    ELSE DEFAULT_THUMBNAIL_CID_HASHES["default"]

\* ImageAndAnimation with the two branches exchanged.
ImageAndAnimation_Swapped(isImage, content_url, media_url, thumbnail_url) ==
    IF isImage
    THEN [image |-> thumbnail_url, animation_url |-> media_url]
    ELSE [image |-> content_url, animation_url |-> None]

\* Lines 146-153: which of the URLs is the image and which the animation.
ImageAndAnimation(isImage, content_url, media_url, thumbnail_url) ==
    IF isImage
    THEN [image |-> content_url, animation_url |-> None]
    ELSE [image |-> thumbnail_url, animation_url |-> media_url]

\* Lines 143-170: the MIME probe and the record built from it.  The result
\* also lists the URLs the call sent a HEAD request to.
AssembleMetadata(name, description, media_url, thumbnail_url, attributes, fetchable_content_url, response) ==
    LET content_url == media_url
        mime_type == get_mime_type(response)
        media == mime_type_to_media(mime_type)
        probed == << fetchable_content_url >>
    IN  IF media.exc /= NoExc
        THEN [exc |-> media.exc, val |-> << >>, probed |-> probed]
        ELSE
        LET media_type == media.val[1]
            chosen == ImageAndAnimation(is_image(mime_type).val[1], content_url,
                                        media_url, thumbnail_url)
            image == IF ~Truthy(chosen.image)
                     THEN IPFS_PREFIX \o DefaultThumbnailCid(media_type)
                     ELSE chosen.image
            content == IF Truthy(content_url)
                       THEN [mime |-> IF Truthy(mime_type) THEN mime_type ELSE OCTET_STREAM,
                             uri |-> content_url]
                       ELSE None
        IN  [exc |-> NoExc,
             val |-> << [name |-> name,
                         description |-> description,
                         image |-> image,
                         animation_url |-> chosen.animation_url,
                         content |-> content,
                         attributes |-> attributes] >>,
             probed |-> probed]

\* Lines 140-170: the test of the fetchable URL, then the assembly.
CheckedAssemble(name, description, media_url, thumbnail_url, attributes, fetchable_content_url, response) ==
    IF ~Truthy(fetchable_content_url)
    THEN [exc |-> Exc("ValueError", media_url), val |-> << >>, probed |-> << >>]
    ELSE AssembleMetadata(name, description, media_url, thumbnail_url, attributes,
                          fetchable_content_url, response)

\* make_token_metadata without the test of the fetchable URL.
make_token_metadata_NoCheck(name, description, media_url, thumbnail_url, attributes, response) ==
    AssembleMetadata(name, description, media_url, thumbnail_url, attributes,
                     get_fetchable_url(media_url), response)

make_token_metadata(name, description, media_url, thumbnail_url, attributes, response) ==
    CheckedAssemble(name, description, media_url, thumbnail_url, attributes,
                    get_fetchable_url(media_url), response)

\* file: what happens to the upload.  "missing": os.path.exists is false;
\* "rejected": Pinata answers with a status other than 200.  Both raises are
\* inside the try block and are re-raised as Exception by its handlers.
pin_file_with_pinata(file) ==
    IF file.outcome = "missing" THEN Raise("Exception", None)
    ELSE IF file.outcome = "rejected" THEN Raise("Exception", None)
    ELSE Ok(IPFS_PREFIX \o file.hash)

pin_json_with_pinata(json) ==
    IF json.outcome = "rejected" THEN Raise("Exception", None)
    ELSE Ok(IPFS_PREFIX \o json.hash)

\* Lines 114-116: the upload of the metadata, unless building it raised.
UploadMetadata(metadata_json, json) ==
    IF metadata_json.exc /= NoExc
    THEN metadata_json
    ELSE [exc |-> pin_json_with_pinata(json).exc,
          val |-> pin_json_with_pinata(json).val,
          probed |-> metadata_json.probed]

\* Lines 110-116, with the URL of the pinned image.
MetadataOfPinned(name, description, image_ipfs_url, response, json) ==
    UploadMetadata(make_token_metadata(name, description, image_ipfs_url,
                                       image_ipfs_url, << >>, response), json)

make_image_token_metadata(name, description, file, response, json) ==
    IF pin_file_with_pinata(file).exc /= NoExc
    THEN [exc |-> pin_file_with_pinata(file).exc, val |-> << >>, probed |-> << >>]
    ELSE MetadataOfPinned(name, description, pin_file_with_pinata(file).val[1],
                          response, json)

\* ------------------------------------------------------------------------
\* The actions
\* ------------------------------------------------------------------------
\* A str returned to the agent, by its fixed leading text.
Text(t) == [type |-> "str", text |-> t]
\* latest_tweets.data, a list.
TweetList == [type |-> "list", text |-> "tweets"]

\* agent_wallet.invoke_contract(...) followed by invocation.wait().  invoke:
\* "ok", or the step that raises ("invoke": the lookup of agent_wallet or
\* invoke_contract itself; "wait": invocation.wait()).
InvokeContract(invoke) ==
    IF invoke = "ok" THEN Ok("transaction_link") ELSE Raise("Exception", None)

create_zora_collection(invoke) ==
    LET invocation == InvokeContract(invoke)
    IN  IF invocation.exc /= NoExc
        THEN IF Catches("Exception", invocation.exc.cls)
             THEN Ok(Text("Error deploying Zora collection"))
             ELSE [exc |-> invocation.exc, val |-> << >>]
        ELSE Ok(Text("Collection deployed successfully"))

\* Lines 56-71: the try block and the return, with the value returned by
\* make_image_token_metadata.
SetupNewToken(invocation) ==
    IF invocation.exc /= NoExc
    THEN IF Catches("Exception", invocation.exc.cls)
         THEN Ok(Text("Error setting up new token on Zora collection"))
         ELSE [exc |-> invocation.exc, val |-> << >>]
    ELSE Ok(Text("New token setup on Zora collection successfully"))

\* Line 54 is outside the try block: what it raises leaves the function.
AfterTokenUri(token_uri, invoke) ==
    IF token_uri.exc /= NoExc
    THEN [exc |-> token_uri.exc, val |-> << >>, probed |-> token_uri.probed]
    ELSE [exc |-> SetupNewToken(InvokeContract(invoke)).exc,
          val |-> SetupNewToken(InvokeContract(invoke)).val,
          probed |-> token_uri.probed]

create_token_on_zora_collection(name, description, file, response, json, invoke) ==
    AfterTokenUri(make_image_token_metadata(name, description, file, response, json), invoke)

\* def get_user_id(client, username): args are the positional arguments of
\* the call.  lookup: what client.get_user does.
get_user_id(args, lookup) ==
    IF Len(args) /= 2 THEN Raise("TypeError", None)
    ELSE IF lookup = "tweepy_error" THEN Ok(Text("Error getting User ID"))
    ELSE IF lookup = "no_data" THEN Raise("AttributeError", None)
    ELSE Ok([type |-> "int", text |-> "id"])

\* timeline: what client.get_users_tweets does.
\* Lines 30-40, with what get_user_id returned or raised.
AfterUserId(user_id, timeline) ==
    IF user_id.exc /= NoExc
    THEN IF Catches("TweepyException", user_id.exc.cls)
         THEN Ok(Text("Error getting tweets"))
         ELSE [exc |-> user_id.exc, val |-> << >>]
    ELSE IF user_id.val[1].type = "str" THEN Ok(user_id.val[1])
    ELSE IF timeline = "tweepy_error"
         THEN IF Catches("TweepyException", "TweepyException")
              THEN Ok(Text("Error getting tweets"))
              ELSE Raise("TweepyException", None)
    ELSE IF timeline = "no_data" THEN Raise("TypeError", None)
    ELSE Ok(TweetList)

\* Line 29 calls get_user_id with the username alone.
get_tweets(username, lookup, timeline) ==
    AfterUserId(get_user_id(<< username >>, lookup), timeline)

\* ------------------------------------------------------------------------
\* Inputs
\* ------------------------------------------------------------------------
\* Pieces the input strings are put together from.
Fragments ==
    { HTTP_PREFIX,
      HTTPS_SCHEME \o << "/", "/", "g" >>,
      IPFS_PREFIX,
      IPFS_PATH \o BAFY,
      DATA_SCHEME,
      BLOB_SCHEME,
      QM,
      BAFY,
      QUOTE,
      << "?", "x" >>,
      << "/", "/", "g" >>,
      << "a" >> }

\* The strings of at most n fragments.
RECURSIVE Strings(_)
Strings(n) ==
    IF n = 0 THEN { << >> }
    ELSE LET shorter == Strings(n - 1)
         IN  shorter \cup { s \o f : s \in shorter, f \in Fragments }

Inputs == Strings(MaxFrags) \cup { None }
MediaUrls == Strings(MaxMediaFrags) \cup { None }
ThumbnailUrls == { None, << >>, IPFS_PREFIX \o QM, HTTPS_SCHEME \o << "/", "/", "g" >> }

MimeTypes == { IMAGE_SLASH \o << "a" >>, VIDEO_SLASH \o << "a" >>,
               AUDIO_SLASH \o << "a" >>, << "t", "/", "a" >>, << >> }
NoResponse == [failed |-> TRUE, content_type |-> None]
Responses == { NoResponse }
             \cup { [failed |-> FALSE, content_type |-> m] : m \in MimeTypes \cup { None } }

Uploads == { [outcome |-> "missing", hash |-> << >>],
             [outcome |-> "rejected", hash |-> << >>],
             [outcome |-> "ok", hash |-> QM],
             [outcome |-> "ok", hash |-> BAFY] }
JsonUploads == { u \in Uploads : u.outcome /= "missing" }
Invocations == { "ok", "invoke", "wait" }
Lookups == { "ok", "tweepy_error", "no_data" }
Timelines == { "ok", "tweepy_error", "no_data" }

NoEnv == [file |-> [outcome |-> "none", hash |-> << >>],
          json |-> [outcome |-> "none", hash |-> << >>],
          invoke |-> "none", lookup |-> "none", timeline |-> "none"]

NAME == << "n" >>
DESCRIPTION == << "d" >>

\* ------------------------------------------------------------------------
\* The state machine: one call of one function on inputs chosen by the caller
\* and the collaborators.
\* ------------------------------------------------------------------------
Init ==
    /\ pc = "idle"
    /\ call = "none"
    /\ uri = None
    /\ thumbnail = None
    /\ head = NoResponse
    /\ env = NoEnv
    /\ ret = << >>
    /\ raised = NoExc
    /\ probes = << >>

NormalizeIpfsUrl ==
    /\ pc = "idle"
    /\ \E u \in Inputs :
        /\ uri' = u
        /\ ret' = << normalize_ipfs_url(u) >>
    /\ call' = "normalize_ipfs_url"
    /\ raised' = NoExc
    /\ pc' = "done"
    /\ UNCHANGED << thumbnail, head, env, probes >>

IpfsGatewayUrl ==
    /\ pc = "idle"
    /\ \E u \in Inputs :
        /\ uri' = u
        /\ ret' = << ipfs_gateway_url(u) >>
    /\ call' = "ipfs_gateway_url"
    /\ raised' = NoExc
    /\ pc' = "done"
    /\ UNCHANGED << thumbnail, head, env, probes >>

GetFetchableUrl ==
    /\ pc = "idle"
    /\ \E u \in Inputs :
        /\ uri' = u
        /\ ret' = << get_fetchable_url(u) >>
    /\ call' = "get_fetchable_url"
    /\ raised' = NoExc
    /\ pc' = "done"
    /\ UNCHANGED << thumbnail, head, env, probes >>

MakeTokenMetadata ==
    /\ pc = "idle"
    /\ \E u \in MediaUrls, t \in ThumbnailUrls, r \in Responses :
        \E out \in { make_token_metadata(NAME, DESCRIPTION, u, t, << >>, r) } :
            /\ uri' = u
            /\ thumbnail' = t
            /\ head' = r
            /\ ret' = out.val
            /\ raised' = out.exc
            /\ probes' = out.probed
    /\ call' = "make_token_metadata"
    /\ pc' = "done"
    /\ UNCHANGED env

CreateZoraCollection ==
    /\ pc = "idle"
    /\ \E i \in Invocations :
        \E out \in { create_zora_collection(i) } :
            /\ env' = [NoEnv EXCEPT !.invoke = i]
            /\ ret' = out.val
            /\ raised' = out.exc
    /\ call' = "create_zora_collection"
    /\ pc' = "done"
    /\ UNCHANGED << uri, thumbnail, head, probes >>

CreateTokenOnZoraCollection ==
    /\ pc = "idle"
    /\ \E f \in Uploads, r \in Responses, j \in JsonUploads, i \in Invocations :
        \E out \in { create_token_on_zora_collection(NAME, DESCRIPTION, f, r, j, i) } :
            /\ env' = [NoEnv EXCEPT !.file = f, !.json = j, !.invoke = i]
            /\ head' = r
            /\ ret' = out.val
            /\ raised' = out.exc
            /\ probes' = out.probed
    /\ call' = "create_token_on_zora_collection"
    /\ pc' = "done"
    /\ UNCHANGED << uri, thumbnail >>

GetTweets ==
    /\ pc = "idle"
    /\ \E l \in Lookups, t \in Timelines :
        \E out \in { get_tweets(<< "u" >>, l, t) } :
            /\ env' = [NoEnv EXCEPT !.lookup = l, !.timeline = t]
            /\ ret' = out.val
            /\ raised' = out.exc
    /\ call' = "get_tweets"
    /\ pc' = "done"
    /\ UNCHANGED << uri, thumbnail, head, probes >>

Next ==
    \/ NormalizeIpfsUrl
    \/ IpfsGatewayUrl
    \/ GetFetchableUrl
    \/ MakeTokenMetadata
    \/ CreateZoraCollection
    \/ CreateTokenOnZoraCollection
    \/ GetTweets

Spec == Init /\ [][Next]_vars

\* ------------------------------------------------------------------------
\* Properties
\* ------------------------------------------------------------------------
Called(f) == pc = "done" /\ call = f

\* The URL path of u starts with /ipfs/.
HasIpfsPath(u) == StartsWith(urlparse(u).path, IPFS_PATH)

\* C1: get_fetchable_url returns None for every input that starts with
\* "http://", whatever follows the prefix.
C1_HttpNeverFetchable ==
    (Called("get_fetchable_url") /\ StartsWith(uri, HTTP_PREFIX)) => ret = << None >>

\* An http:// gateway URL of a CID was rejected.
C1_Witness ==
    /\ Called("get_fetchable_url")
    /\ uri = HTTP_PREFIX \o << "/", "/", "g" >> \o IPFS_PATH \o BAFY
    /\ ret = << None >>

\* C2: normalize_ipfs_url returns None for every non-empty string that is
\* neither a CID, nor starts with "ipfs://", nor has a URL path starting with
\* "/ipfs/"; it returns "ipfs://" + s only when s is a CID.
C2_NonIpfsIsNone ==
    Called("normalize_ipfs_url") =>
        /\ (/\ Truthy(uri)
            /\ ~MatchesCidPrefix(uri)
            /\ ~StartsWith(uri, IPFS_PREFIX)
            /\ ~HasIpfsPath(uri)) => ret = << None >>
        /\ (Truthy(uri) /\ ret = << IPFS_PREFIX \o uri >>) => MatchesCidPrefix(uri)

\* C3: for every gateway-form input, normalize_ipfs_url returns "ipfs://"
\* followed by the URL path without its leading "/ipfs/", followed directly
\* by the query string.
C3_GatewayNormalized ==
    (Called("normalize_ipfs_url") /\ HasIpfsPath(uri) /\ ~StartsWith(uri, IPFS_PREFIX)) =>
        ret = << IPFS_PREFIX \o RemovePrefix(urlparse(uri).path, IPFS_PATH)
                             \o urlparse(uri).query >>

\* C4: get_fetchable_url returns its input unchanged for every URI that
\* begins with "https:", "data:" or "blob:" and is not an IPFS reference.
C4_SchemePassthrough ==
    (/\ Called("get_fetchable_url")
     /\ MatchesFetchableScheme(uri)
     /\ ~StartsWith(uri, IPFS_PREFIX)
     /\ ~HasIpfsPath(uri)
     /\ ~MatchesCidPrefix(uri)) => ret = << uri >>

\* C5 as stated: for every string u that starts with "ipfs://",
\* normalize_ipfs_url(u) returns exactly u.
C5_NormalizedUnchanged ==
    (Called("normalize_ipfs_url") /\ StartsWith(uri, IPFS_PREFIX)) => ret = << uri >>

\* C5 as amended: for every string u that starts with "ipfs://",
\* normalize_ipfs_url(u) returns u without its double-quote characters, which
\* is exactly u when u holds none, and normalising the result again returns
\* the same result.
C5_NormalizedUnquoted ==
    (Called("normalize_ipfs_url") /\ StartsWith(uri, IPFS_PREFIX)) =>
        /\ ret = << SelectSeq(uri, LAMBDA c : c /= "\"") >>
        /\ Find(uri, QUOTE) = 0 => ret = << uri >>
        /\ normalize_ipfs_url(ret[1]) = ret[1]

\* A normalized URL with a double quote in it was normalised.
C5_Witness ==
    /\ Called("normalize_ipfs_url")
    /\ uri = IPFS_PREFIX \o QM \o QUOTE
    /\ ret = << IPFS_PREFIX \o QM >>

\* C6: when the MIME probe gives no MIME type for a fetchable media_url,
\* make_token_metadata returns a record with content.mime =
\* "application/octet-stream", content.uri = media_url, animation_url =
\* media_url and image = thumbnail_url or the default placeholder.
C6_ProbeFailureTolerated ==
    (/\ Called("make_token_metadata")
     /\ Truthy(get_fetchable_url(uri))
     /\ get_mime_type(head) = None) =>
        /\ raised = NoExc
        /\ Len(ret) = 1
        /\ ret[1].content.mime = OCTET_STREAM
        /\ ret[1].content.uri = uri
        /\ ret[1].animation_url = uri
        /\ ret[1].image = IF Truthy(thumbnail) THEN thumbnail
                          ELSE IPFS_PREFIX \o DEFAULT_THUMBNAIL_CID_HASHES["default"]

\* The media kind a MIME type stands for, by its top-level category.
MediaKind(mime) ==
    IF StartsWith(mime, IMAGE_SLASH) THEN "image"
    ELSE IF StartsWith(mime, VIDEO_SLASH) THEN "video"
    ELSE IF StartsWith(mime, AUDIO_SLASH) THEN "audio"
    ELSE "unknown"

\* C7: for every successful make_token_metadata call with a known MIME type:
\* an image type gives image = media_url and animation_url = None; any other
\* type gives animation_url = media_url and image = thumbnail_url when one is
\* supplied, else "ipfs://" + the placeholder CID of the media type (the
\* generic one when the type has none).  image is never empty.
C7_ImageAndAnimation ==
    (/\ Called("make_token_metadata")
     /\ raised = NoExc
     /\ ~head.failed
     /\ head.content_type /= None) =>
        LET m == ret[1]
            kind == MediaKind(head.content_type)
            placeholder == IF kind \in DOMAIN DEFAULT_THUMBNAIL_CID_HASHES
                           THEN DEFAULT_THUMBNAIL_CID_HASHES[kind]
                           ELSE DEFAULT_THUMBNAIL_CID_HASHES["default"]
        IN  /\ kind = "image" => (m.image = uri /\ m.animation_url = None)
            /\ kind /= "image" =>
                 /\ m.animation_url = uri
                 /\ Truthy(thumbnail) => m.image = thumbnail
                 /\ ~Truthy(thumbnail) => m.image = IPFS_PREFIX \o placeholder
            /\ Truthy(m.image)
            /\ m.animation_url /= None => kind /= "image"

\* A video without a thumbnail got the placeholder image.
C7_Witness ==
    /\ Called("make_token_metadata")
    /\ raised = NoExc
    /\ head.content_type = VIDEO_SLASH \o << "a" >>
    /\ thumbnail = None
    /\ ret[1].image = IPFS_PREFIX \o BAFKREIASDASD
    /\ ret[1].animation_url = uri

\* C8: make_token_metadata raises an error carrying media_url, returns no
\* record and sends no MIME probe whenever get_fetchable_url(media_url) is
\* None; it returns a record only when get_fetchable_url(media_url) is not
\* None.
C8_UnfetchableRaises ==
    Called("make_token_metadata") =>
        /\ get_fetchable_url(uri) = None =>
             /\ raised = Exc("ValueError", uri)
             /\ ret = << >>
             /\ probes = << >>
        /\ Len(ret) = 1 => get_fetchable_url(uri) /= None

\* An http:// media_url was refused before any probe.
C8_Witness ==
    /\ Called("make_token_metadata")
    /\ uri = HTTP_PREFIX \o << "a" >>
    /\ raised = Exc("ValueError", uri)
    /\ probes = << >>

\* Some collaborator the action called has failed.
CollaboratorFailed ==
    \/ call = "create_zora_collection" /\ env.invoke /= "ok"
    \/ /\ call = "create_token_on_zora_collection"
       /\ \/ env.file.outcome /= "ok"
          \/ head.failed
          \/ env.json.outcome /= "ok"
          \/ env.invoke /= "ok"
    \/ /\ call = "get_tweets"
       /\ (env.lookup = "tweepy_error" \/ env.timeline = "tweepy_error")

\* C9: every action returns an error string and propagates no exception
\* when a collaborator it calls fails.
C9_ActionsReturnErrorText ==
    (pc = "done" /\ CollaboratorFailed) =>
        /\ raised = NoExc
        /\ Len(ret) = 1
        /\ ret[1].type = "str"
        /\ ret[1].text \in { "Error deploying Zora collection",
                             "Error setting up new token on Zora collection",
                             "Error getting tweets",
                             "Error getting User ID" }

\* C10: ipfs_gateway_url(u) is None exactly when normalize_ipfs_url(u) is
\* None, and otherwise is "https://ipfs.io/ipfs/" followed by
\* normalize_ipfs_url(u) without its leading "ipfs://"; later occurrences of
\* "ipfs://" stay as they are.
C10_GatewayPrefixOnly ==
    Called("ipfs_gateway_url") =>
        LET n == normalize_ipfs_url(uri)
        IN  /\ (ret = << None >>) <=> (n = None)
            /\ n /= None => ret = << IPFS_GATEWAY \o IPFS_PATH \o RemovePrefix(n, IPFS_PREFIX) >>

====
